---------------------------- MODULE Spec2Model ----------------------------
(***************************************************************************)
(* Microburbs Suburb Explorer (src/app.js).                                *)
(*                                                                         *)
(* The page fetches a JSON report and renders it as summary cards, a       *)
(* table and a bar chart.  The model has two parts:                        *)
(*                                                                         *)
(*  - the data pipeline (flattenObject, summarize, findNumericPairs,       *)
(*    computeSummary, formatVal, formatNumber) as operators over JSON      *)
(*    values, exercised by SpecPipeline on a bounded family of inputs;     *)
(*  - the page (the els object, onFetch and its continuations, the         *)
(*    listeners) as a state machine, Spec.                                 *)
(*                                                                         *)
(* Strings are sequences of one-character strings, so that the code's      *)
(* string operations (concatenation, counting '.', slice) are computed.    *)
(* Numbers are integers: the model has no fractions, NaN or Infinity       *)
(* except as the result of Number() on a string.  The "open URL" and       *)
(* "copy cURL" buttons write to no state the page reads back (a new        *)
(* window, the clipboard, a toast) and have no action here.                *)
(***************************************************************************)
EXTENDS Integers, Sequences, FiniteSets, TLC

VARIABLES
  \* ---- the pipeline harness (SpecPipeline) ----
  data,        \* the JSON value handed to the function under test
  depthLimit,  \* flattenObject's depthLimit argument
  called,      \* which function has been applied ("none" before the call)
  flat,        \* result of flattenObject(data, depthLimit)
  pairs,       \* result of findNumericPairs(data)
  summary,     \* result of computeSummary(data)
  \* ---- the page (Spec) ----
  els,         \* the DOM elements app.js keeps in `els`
  customSlugInput, \* the lazily created custom-slug <input>, or NoInput
  loaded,      \* the window load event has fired
  fetches,     \* onFetch invocations that are suspended at an await
  clientWidth, \* canvas.parentElement.clientWidth
  lastDone,    \* history: outcome of the most recently completed onFetch
  nStarted,    \* history: number of onFetch invocations so far
  nDone,       \* history: number of onFetch invocations that have finished
  nEdits       \* history: number of user edits of the form inputs

vars == <<data, depthLimit, called, flat, pairs, summary,
          els, customSlugInput, loaded, fetches, clientWidth,
          lastDone, nStarted, nDone, nEdits>>

pipelineVars == <<data, depthLimit, called, flat, pairs, summary>>
pageVars == <<els, customSlugInput, loaded, fetches, clientWidth,
              lastDone, nStarted, nDone, nEdits>>

-----------------------------------------------------------------------------
(* Strings and numbers of the JavaScript runtime.                          *)

Min(a, b) == IF a < b THEN a ELSE b
Max(a, b) == IF a > b THEN a ELSE b
Abs(n) == IF n < 0 THEN -n ELSE n

DigitChars == <<"0","1","2","3","4","5","6","7","8","9">>

RECURSIVE Digits(_)
\* decimal digits of a natural number
Digits(n) ==
  IF n < 10 THEN <<DigitChars[n + 1]>>
  ELSE Digits(n \div 10) \o <<DigitChars[(n % 10) + 1]>>

\* String(n) for an integer n
NumToString(n) == IF n < 0 THEN <<"-">> \o Digits(-n) ELSE Digits(n)

\* s.slice(a, b) for 0 <= a <= b
Slice(s, a, b) == SubSeq(s, a + 1, Min(b, Len(s)))

RECURSIVE ConcatRange(_,_,_)
\* ss[lo] \o ... \o ss[hi], by halves
ConcatRange(ss, lo, hi) ==
  IF lo > hi THEN <<>>
  ELSE IF lo = hi THEN ss[lo]
  ELSE LET mid == (lo + hi) \div 2
       IN  ConcatRange(ss, lo, mid) \o ConcatRange(ss, mid + 1, hi)

\* the concatenation of a sequence of sequences
ConcatAll(ss) == IF Len(ss) = 1 THEN ss[1] ELSE ConcatRange(ss, 1, Len(ss))

\* <<1, ..., n>>
Indices(n) == [i \in 1..n |-> i]

RECURSIVE Pad3(_)
Pad3(ds) == IF Len(ds) >= 3 THEN ds ELSE Pad3(<<"0">> \o ds)

RECURSIVE GroupDigits(_)
\* digits of a natural number with a comma between groups of three (en-US)
GroupDigits(n) ==
  IF n < 1000 THEN Digits(n)
  ELSE GroupDigits(n \div 1000) \o <<",">> \o Pad3(Digits(n % 1000))

\* n.toLocaleString() for an integer n, in the en-US locale
toLocaleString(n) == IF n < 0 THEN <<"-">> \o GroupDigits(-n) ELSE GroupDigits(n)

\* (n / d).toFixed(2) for integers n, d > 0: two decimals, rounded half away
\* from zero on the exact quotient
toFixed2(n, d) ==
  LET h == (2 * Abs(n) * 100 + d) \div (2 * d)   \* hundredths, rounded
      txt == Digits(h \div 100) \o <<".">> \o SubSeq(Pad3(Digits(h % 100)), 2, 3)
  IN  IF n < 0 /\ h > 0 THEN <<"-">> \o txt ELSE txt

DigitValue(ch) == CHOOSE d \in 0..9 : DigitChars[d + 1] = ch
IsDigit(ch) == \E d \in 0..9 : DigitChars[d + 1] = ch

RECURSIVE DigitsValue(_)
DigitsValue(ds) ==
  IF ds = <<>> THEN 0
  ELSE 10 * DigitsValue(SubSeq(ds, 1, Len(ds) - 1)) + DigitValue(ds[Len(ds)])

RECURSIVE Trim(_)
\* s.trim(), for the space character
Trim(s) ==
  IF s = <<>> THEN s
  ELSE IF s[1] = " " THEN Trim(Tail(s))
  ELSE IF s[Len(s)] = " " THEN Trim(SubSeq(s, 1, Len(s) - 1))
  ELSE s

NaN == [finite |-> FALSE, n |-> 0]
Finite(n) == [finite |-> TRUE, n |-> n]

\* Number(s) for a string s: the empty (or blank) string is 0, an optionally
\* signed run of digits is its value, anything else of the model's strings
\* (they hold no fraction, exponent, hex or Infinity literal) is NaN.
StringToNumber(s) ==
  LET t == Trim(s)
      signed == t # <<>> /\ t[1] \in {"-", "+"}
      ds == IF signed THEN Tail(t) ELSE t
  IN  IF t = <<>> THEN Finite(0)
      ELSE IF ds # <<>> /\ \A i \in 1..Len(ds) : IsDigit(ds[i])
           THEN Finite(IF t[1] = "-" THEN -DigitsValue(ds) ELSE DigitsValue(ds))
           ELSE NaN

-----------------------------------------------------------------------------
(* JavaScript values.  Every value is a record of the same shape, tagged    *)
(* by t: "null", "undef", "bool" (b), "num" (n), "str" (s), "fn" (a native  *)
(* function, s its name), "arr" and "obj" (c, the elements or the own        *)
(* properties in Object.keys order, each [k |-> key, v |-> value]; an       *)
(* array element has the empty key).                                        *)

Val(t, b, n, s, c) == [t |-> t, b |-> b, n |-> n, s |-> s, c |-> c]

JNull == Val("null", FALSE, 0, <<>>, <<>>)
JUndef == Val("undef", FALSE, 0, <<>>, <<>>)
JBool(x) == Val("bool", x, 0, <<>>, <<>>)
JNum(x) == Val("num", FALSE, x, <<>>, <<>>)
JStr(x) == Val("str", FALSE, 0, x, <<>>)
JFn(name) == Val("fn", FALSE, 0, name, <<>>)
JArr(elems) ==
  Val("arr", FALSE, 0, <<>>, [i \in 1..Len(elems) |-> [k |-> <<>>, v |-> elems[i]]])
JObj(props) == Val("obj", FALSE, 0, <<>>, props)
P(key, v) == [k |-> key, v |-> v]

\* typeof v === "object" (null included)
TypeofObject(v) == v.t \in {"null", "arr", "obj"}

\* the truthiness of a value, as `v && ...`, `a || b` and `if (v)` test it
Truthy(v) ==
  CASE v.t \in {"null", "undef"} -> FALSE
    [] v.t = "bool" -> v.b
    [] v.t = "num" -> v.n # 0
    [] v.t = "str" -> v.s # <<>>
    [] OTHER -> TRUE

\* typeof v
typeof(v) ==
  CASE v.t = "undef" -> <<"u","n","d","e","f","i","n","e","d">>
    [] v.t = "bool" -> <<"b","o","o","l","e","a","n">>
    [] v.t = "num" -> <<"n","u","m","b","e","r">>
    [] v.t = "str" -> <<"s","t","r","i","n","g">>
    [] v.t = "fn" -> <<"f","u","n","c","t","i","o","n">>
    [] OTHER -> <<"o","b","j","e","c","t">>

\* parts.join(sep) for a sequence of strings
Join(parts, sep) ==
  ConcatAll([i \in 1..Len(parts) |-> IF i = 1 THEN parts[i] ELSE sep \o parts[i]])

RECURSIVE String(_)
\* String(v)
String(v) ==
  CASE v.t = "null" -> <<"n","u","l","l">>
    [] v.t = "undef" -> <<"u","n","d","e","f","i","n","e","d">>
    [] v.t = "bool" -> IF v.b THEN <<"t","r","u","e">> ELSE <<"f","a","l","s","e">>
    [] v.t = "num" -> NumToString(v.n)
    [] v.t = "str" -> v.s
    [] v.t = "fn" -> <<"f","u","n","c","t","i","o","n"," ">> \o v.s \o <<"(",")"," ","{"," ","[","n","a","t","i","v","e"," ","c","o","d","e","]"," ","}">>
    [] v.t = "arr" ->
         Join([i \in 1..Len(v.c) |->
                 IF v.c[i].v.t \in {"null", "undef"} THEN <<>> ELSE String(v.c[i].v)],
              <<",">>)
    [] OTHER -> <<"[","o","b","j","e","c","t"," ","O","b","j","e","c","t","]">>

\* Object.keys(v): the indices of an array or of a string, the own keys of
\* an object, nothing for the other values
ObjectKeys(v) ==
  CASE v.t = "obj" -> [i \in 1..Len(v.c) |-> v.c[i].k]
    [] v.t = "arr" -> [i \in 1..Len(v.c) |-> Digits(i - 1)]
    [] v.t = "str" -> [i \in 1..Len(v.s) |-> Digits(i - 1)]
    [] OTHER -> <<>>

\* the properties every object inherits from Object.prototype that a key
\* of the model can name
ProtoKeys == {<<"t","o","S","t","r","i","n","g">>, <<"c","o","n","s","t","r","u","c","t","o","r">>}

HasOwn(props, key) == \E i \in 1..Len(props) : props[i].k = key
OwnValue(props, key) == props[CHOOSE i \in 1..Len(props) : props[i].k = key].v

\* v?.[key]: undefined on null and undefined; an own property, else one
\* inherited through the prototype chain, else undefined
GetProp(v, key) ==
  CASE v.t \in {"null", "undef"} -> JUndef
    [] v.t = "obj" ->
         IF HasOwn(v.c, key) THEN OwnValue(v.c, key)
         ELSE IF key \in ProtoKeys THEN JFn(key)
         ELSE JUndef
    [] v.t = "arr" ->
         IF \E i \in 1..Len(v.c) : Digits(i - 1) = key
           THEN v.c[CHOOSE i \in 1..Len(v.c) : Digits(i - 1) = key].v
         ELSE IF key = <<"l","e","n","g","t","h">> THEN JNum(Len(v.c))
         ELSE IF key \in ProtoKeys THEN JFn(key)
         ELSE JUndef
    [] v.t = "str" ->
         IF \E i \in 1..Len(v.s) : Digits(i - 1) = key
           THEN JStr(<<v.s[CHOOSE i \in 1..Len(v.s) : Digits(i - 1) = key]>>)
         ELSE IF key = <<"l","e","n","g","t","h">> THEN JNum(Len(v.s))
         ELSE IF key \in ProtoKeys THEN JFn(key)
         ELSE JUndef
    [] OTHER -> IF key \in ProtoKeys THEN JFn(key) ELSE JUndef

\* obj[key] = v on a plain object: an existing key keeps its place
SetProp(props, key, v) ==
  IF HasOwn(props, key)
    THEN [i \in 1..Len(props) |-> IF props[i].k = key THEN P(key, v) ELSE props[i]]
    ELSE Append(props, P(key, v))

\* the positions of a sequence of [k, v] whose key occurs at no earlier one
FirstOccurrences(kvs) ==
  SelectSeq(Indices(Len(kvs)), LAMBDA i : \A j \in 1..(i - 1) : kvs[j].k # kvs[i].k)

\* the value of the last element with the given key
LastValue(kvs, key) ==
  kvs[CHOOSE i \in 1..Len(kvs) :
        kvs[i].k = key /\ \A j \in (i + 1)..Len(kvs) : kvs[j].k # key].v

\* the assignments obj[w.k] = w.v made one after the other, for w in writes:
\* a key stays where it was first set and holds what was last assigned
AssignAll(props, writes) ==
  LET all == props \o writes
      first == FirstOccurrences(all)
  IN  [n \in 1..Len(first) |-> P(all[first[n]].k, LastValue(all, all[first[n]].k))]

-----------------------------------------------------------------------------
(* flattenObject and summarize.  A flattened record (the `out` object) is   *)
(* the sequence of its properties in insertion order.  The keys of the      *)
(* model's inputs are not array indices, so no key is moved to the front    *)
(* by the engine's integer-key ordering.  flattenObject only ever assigns   *)
(* to `out`: a call is modelled by the assignments out[k] = v it makes, in  *)
(* the order it makes them, applied to the `out` it was given.              *)

DEFAULT_DEPTH_LIMIT == 4
ARRAY_FANOUT == 8

\* depth(s): the number of '.' in the prefix
depth(s) == Cardinality({i \in 1..Len(s) : s[i] = "."})

\* summarize(v)
summarize(v) ==
  IF v.t = "arr" THEN <<"A","r","r","a","y","(">> \o Digits(Len(v.c)) \o <<")">>
  ELSE IF Truthy(v) /\ v.t = "obj" THEN <<"O","b","j","e","c","t","(">> \o Digits(Len(v.c)) \o <<" ","k","e","y","s",")">>
  ELSE String(v)

\* a variant of PrefixOrValue without the "value" fallback
PrefixOrValue_NoFallback(prefix) == prefix

\* prefix || "value"
PrefixOrValue(prefix) == IF prefix # <<>> THEN prefix ELSE <<"v","a","l","u","e">>

\* prefix ? `${prefix}.__len` : "__len"
LenKey(prefix) == IF prefix # <<>> THEN prefix \o <<".","_","_","l","e","n">> ELSE <<"_","_","l","e","n">>

\* prefix ? `${prefix}[${i}]` : `[${i}]`
ElemKey(prefix, i) == prefix \o <<"[">> \o Digits(i) \o <<"]">>

\* prefix ? `${prefix}.${k}` : k
FieldKey(prefix, k) == IF prefix # <<>> THEN prefix \o <<".">> \o k ELSE k

\* typeof v === "object" && v !== null : the array element is flattened
ElemRecurses(v) == TypeofObject(v) /\ v.t # "null"

\* a variant of FieldRecurses that takes only plain objects for containers
FieldRecurses_PlainObjectsOnly(v) == Truthy(v) /\ v.t = "obj"

\* v && typeof v === "object" : the object field is flattened
FieldRecurses(v) == Truthy(v) /\ TypeofObject(v)

\* a variant of AtDepthLimit that is off by one (> for >=)
AtDepthLimit_OffByOne(prefix, limit) == depth(prefix) > limit

\* depth(prefix) >= depthLimit : the value is summarized, not expanded
AtDepthLimit(prefix, limit) == depth(prefix) >= limit

\* a variant of ExpandedElems without the slice
ExpandedElems_NoSlice(elems) == elems

\* obj.slice(0, 8): the elements the forEach visits
ExpandedElems(elems) == Slice(elems, 0, ARRAY_FANOUT)

\* the assignment made for the array element at index i, or those of the
\* nested call
RECURSIVE flattenWrites(_,_,_)
ElemWrites(v, limit, p) == IF ElemRecurses(v) THEN flattenWrites(v, limit, p) ELSE <<P(p, v)>>

\* the assignment made for the object field, or those of the nested call
FieldWrites(v, limit, p) == IF FieldRecurses(v) THEN flattenWrites(v, limit, p) ELSE <<P(p, v)>>

\* the assignments to `out` made by flattenObject(obj, depthLimit, prefix, out)
flattenWrites(obj, limit, prefix) ==
  CASE obj.t \in {"null", "undef"} -> <<>>
    [] obj.t \notin {"null", "undef"} /\ AtDepthLimit(prefix, limit) ->
         <<P(PrefixOrValue(prefix), JStr(summarize(obj)))>>
    [] obj.t = "arr" /\ ~AtDepthLimit(prefix, limit) ->
         <<P(LenKey(prefix), JNum(Len(obj.c)))>>
         \o ConcatAll([i \in 1..Len(ExpandedElems(obj.c)) |->
                         ElemWrites(obj.c[i].v, limit, ElemKey(prefix, i - 1))])
    [] obj.t = "obj" /\ ~AtDepthLimit(prefix, limit) ->
         ConcatAll([i \in 1..Len(obj.c) |->
                      FieldWrites(obj.c[i].v, limit, FieldKey(prefix, obj.c[i].k))])
    [] OTHER -> <<P(PrefixOrValue(prefix), obj)>>

\* flattenObject(obj, depthLimit, prefix, out), returning out
flattenObject(obj, limit, prefix, out) == AssignAll(out, flattenWrites(obj, limit, prefix))

\* flat[key] on a flattened record
FlatGet(rec, key) == GetProp(JObj(rec), key)

-----------------------------------------------------------------------------
(* findNumericPairs, computeSummary, formatVal, formatNumber, escapeHtml.   *)

TOP_PAIRS == 12
CONTEXT_CHARS == 48

\* typeof v === "number" ? v : (typeof v === "string" ? Number(v) : NaN)
Coerce(v) ==
  IF v.t = "num" THEN Finite(v.n)
  ELSE IF v.t = "str" THEN StringToNumber(v.s)
  ELSE NaN

\* a variant of KeepsNumber without the zero test
KeepsNumber_ZeroKept(num) == num.finite

\* the pair is kept: Number.isFinite(num) and Math.abs(num) !== 0
KeepsNumber(num) == num.finite /\ Abs(num.n) # 0

\* the loop over Object.entries(flat): the pairs pushed, in entry order
CollectPairs(rec) ==
  LET kept == SelectSeq(rec, LAMBDA e : KeepsNumber(Coerce(e.v)))
  IN  [i \in 1..Len(kept) |-> [label |-> kept[i].k, value |-> Coerce(kept[i].v).n]]

\* the comparator (a, b) => Math.abs(b.value) - Math.abs(a.value)
ComparePairs(a, b) == Abs(b.value) - Abs(a.value)

\* pairs.sort(cmp): Array.prototype.sort is stable, so the element at
\* position i comes after those the comparator puts before it and after the
\* earlier ones it ties with
SortPairs(ps) ==
  LET Before(j, i) == \/ ComparePairs(ps[j], ps[i]) < 0
                      \/ ComparePairs(ps[j], ps[i]) = 0 /\ j < i
      Rank(i) == Cardinality({j \in 1..Len(ps) : Before(j, i)}) + 1
  IN  [n \in 1..Len(ps) |-> ps[CHOOSE i \in 1..Len(ps) : Rank(i) = n]]

\* findNumericPairs(data)
findNumericPairs(d) ==
  Slice(SortPairs(CollectPairs(flattenObject(d, DEFAULT_DEPTH_LIMIT, <<>>, <<>>))),
        0, TOP_PAIRS)

\* data[0] || {}
FirstOrEmpty(d) ==
  LET first == IF Len(d.c) > 0 THEN d.c[1].v ELSE JUndef
  IN  IF Truthy(first) THEN first ELSE JObj(<<>>)

\* a variant of ContextValue that looks at "name" before "suburb"
ContextValue_NameFirst(rec) ==
  LET s == FlatGet(rec, <<"s","u","b","u","r","b">>)
      n == FlatGet(rec, <<"n","a","m","e">>)
      a == FlatGet(rec, <<"a","r","e","a">>)
  IN  IF Truthy(n) THEN n
      ELSE IF Truthy(s) THEN s
      ELSE IF Truthy(a) THEN a
      ELSE JStr(<<>>)

\* flat["suburb"] || flat["name"] || flat["area"] || ""
ContextValue(rec) ==
  LET s == FlatGet(rec, <<"s","u","b","u","r","b">>)
      n == FlatGet(rec, <<"n","a","m","e">>)
      a == FlatGet(rec, <<"a","r","e","a">>)
  IN  IF Truthy(s) THEN s
      ELSE IF Truthy(n) THEN n
      ELSE IF Truthy(a) THEN a
      ELSE JStr(<<>>)

Item(label, value) == [label |-> label, value |-> value]

\* computeSummary(data): the items, each value as pushed (a string or a number)
computeSummary(d) ==
  LET head ==
        IF d.t = "arr" THEN
          << Item(<<"I","t","e","m","s">>, JStr(toLocaleString(Len(d.c)))),
             Item(<<"F","i","e","l","d","s"," ","(","s","a","m","p","l","e",")">>,
                  JNum(Len(flattenObject(FirstOrEmpty(d), DEFAULT_DEPTH_LIMIT, <<>>, <<>>)))),
             Item(<<"T","y","p","e">>, JStr(<<"A","r","r","a","y">>)) >>
        ELSE IF Truthy(d) /\ TypeofObject(d) THEN
          << Item(<<"F","i","e","l","d","s">>,
                  JStr(toLocaleString(Len(flattenObject(d, DEFAULT_DEPTH_LIMIT, <<>>, <<>>))))),
             Item(<<"T","y","p","e">>, JStr(<<"O","b","j","e","c","t">>)) >>
        ELSE << Item(<<"T","y","p","e">>, JStr(typeof(d))) >>
      suburb == ContextValue(flattenObject(d, DEFAULT_DEPTH_LIMIT, <<>>, <<>>))
  IN  IF Truthy(suburb)
        THEN Append(head, Item(<<"C","o","n","t","e","x","t">>, JStr(Slice(String(suburb), 0, CONTEXT_CHARS))))
        ELSE head

THOUSAND == 1000
MILLION == 1000000
BILLION == 1000000000

\* formatNumber(n), n an integer
formatNumber(n) ==
  IF Abs(n) >= BILLION THEN toFixed2(n, BILLION) \o <<"B">>
  ELSE IF Abs(n) >= MILLION THEN toFixed2(n, MILLION) \o <<"M">>
  ELSE IF Abs(n) >= THOUSAND THEN toFixed2(n, THOUSAND) \o <<"k">>
  ELSE toLocaleString(n)

\* the characters of a string inside a JSON string literal
JsonQuote(s) ==
  ConcatAll([i \in 1..Len(s) |->
               IF s[i] = "\"" THEN <<"\\", "\"">>
               ELSE IF s[i] = "\\" THEN <<"\\", "\\">>
               ELSE <<s[i]>>])

Spaces(n) == [i \in 1..n |-> " "]

RECURSIVE Stringify(_,_,_)
\* JSON.stringify(v, null, gap) of a JSON value at indentation ind;
\* gap = 0 is JSON.stringify(v)
Stringify(v, gap, ind) ==
  LET nl == IF gap = 0 THEN <<>> ELSE <<"\n">> \o Spaces(ind + gap)
      close == IF gap = 0 THEN <<>> ELSE <<"\n">> \o Spaces(ind)
      colon == IF gap = 0 THEN <<":">> ELSE <<":", " ">>
  IN  CASE v.t = "null" -> <<"n","u","l","l">>
        [] v.t = "bool" -> IF v.b THEN <<"t","r","u","e">> ELSE <<"f","a","l","s","e">>
        [] v.t = "num" -> NumToString(v.n)
        [] v.t = "str" -> <<"\"">> \o JsonQuote(v.s) \o <<"\"">>
        [] v.t = "arr" ->
             IF v.c = <<>> THEN <<"[","]">>
             ELSE <<"[">> \o nl
                  \o Join([i \in 1..Len(v.c) |-> Stringify(v.c[i].v, gap, ind + gap)],
                          <<",">> \o nl)
                  \o close \o <<"]">>
        [] v.t = "obj" ->
             IF v.c = <<>> THEN <<"{","}">>
             ELSE <<"{">> \o nl
                  \o Join([i \in 1..Len(v.c) |->
                             <<"\"">> \o JsonQuote(v.c[i].k) \o <<"\"">> \o colon
                             \o Stringify(v.c[i].v, gap, ind + gap)],
                          <<",">> \o nl)
                  \o close \o <<"}">>
        [] OTHER -> <<>>

\* formatVal(v)
formatVal(v) ==
  IF v.t \in {"null", "undef"} THEN <<>>
  ELSE IF v.t = "num" THEN formatNumber(v.n)
  ELSE IF TypeofObject(v) THEN Stringify(v, 0, 0)
  ELSE String(v)

\* escapeHtml(s)
escapeHtml(s) ==
  ConcatAll([i \in 1..Len(s) |->
               CASE s[i] = "&" -> <<"&","a","m","p",";">>
                 [] s[i] = "<" -> <<"&","l","t",";">>
                 [] s[i] = ">" -> <<"&","g","t",";">>
                 [] s[i] = "\"" -> <<"&","q","u","o","t",";">>
                 [] s[i] = "'" -> <<"&","#","3","9",";">>
                 [] OTHER -> <<s[i]>>])

-----------------------------------------------------------------------------
(* The page: configuration, the els object and the functions that write it. *)
(* An element is a record of the properties app.js reads or writes; a       *)
(* section's `hidden` is the presence of the class "hidden".                *)

USE_PROXY == TRUE
PROXY_BASE == <<"h","t","t","p","s",":","/","/","m","b","-","p","r","o","x","y","-","y","o","u","r","n","a","m","e",".","w","o","r","k","e","r","s",".","d","e","v">>
SANDBOX_BASE_DIRECT == <<"h","t","t","p","s",":","/","/","w","w","w",".","m","i","c","r","o","b","u","r","b","s",".","c","o","m",".","a","u","/","r","e","p","o","r","t","_","g","e","n","e","r","a","t","o","r","/","a","p","i","/","s","a","n","d","b","o","x","/","s","u","b","u","r","b">>
PATH_PREFIX == <<"s","u","b","u","r","b">>
CUSTOM_SLUG == <<"_","_","c","u","s","t","o","m","_","_">>

\* the one character U+2026 (horizontal ellipsis)
ELLIPSIS == "U+2026"

\* customSlugInput before the custom option is first selected (null)
NoInput == [exists |-> FALSE, value |-> <<>>, display |-> "none"]

\* encodeURIComponent(s): the reserved characters of the model's inputs are
\* percent-encoded, every other character of them is unreserved
encodeURIComponent(s) ==
  ConcatAll([i \in 1..Len(s) |->
               CASE s[i] = " " -> <<"%","2","0">>
                 [] s[i] = "/" -> <<"%","2","F">>
                 [] s[i] = "&" -> <<"%","2","6">>
                 [] s[i] = "?" -> <<"%","3","F">>
                 [] OTHER -> <<s[i]>>])

\* getSlug()
getSlug(e, custom) ==
  IF e.endpoint.value = CUSTOM_SLUG
    THEN LET val == Trim(IF custom.exists THEN custom.value ELSE <<>>)
         IN  IF val # <<>> THEN val ELSE <<"a","m","e","n","i","t","y">>
    ELSE e.endpoint.value

\* buildUrl()
buildUrl(e, custom) ==
  LET suburb == Trim(e.suburb.value)
      slug == getSlug(e, custom)
  IN  IF USE_PROXY /\ PROXY_BASE # <<>>
        THEN PROXY_BASE \o <<"/">> \o PATH_PREFIX \o <<"/">> \o encodeURIComponent(slug)
             \o <<"?","s","u","b","u","r","b","=">> \o encodeURIComponent(suburb)
        ELSE SANDBOX_BASE_DIRECT \o <<"/">> \o encodeURIComponent(slug)
             \o <<"?","s","u","b","u","r","b","=">> \o encodeURIComponent(suburb)

\* updateRequestUrlPreview()
updateRequestUrlPreview(e, custom) ==
  [e EXCEPT !.reqUrl.textContent = buildUrl(e, custom)]

\* a variant of showLoadingState that never restores the button's text
showLoadingState_TextKept(e, isLoading) ==
  LET b == [e EXCEPT !.fetchBtn.disabled = isLoading,
                     !.fetchBtn.textContent =
                        IF isLoading THEN <<"L","o","a","d","i","n","g">> \o <<ELLIPSIS>> ELSE @]
  IN  IF isLoading
        THEN [b EXCEPT !.summary.hidden = TRUE,
                       !.chartSection.hidden = TRUE,
                       !.tableSection.hidden = TRUE]
        ELSE b

\* showLoadingState(isLoading)
showLoadingState(e, isLoading) ==
  LET b == [e EXCEPT !.fetchBtn.disabled = isLoading,
                     !.fetchBtn.textContent =
                        IF isLoading THEN <<"L","o","a","d","i","n","g">> \o <<ELLIPSIS>> ELSE <<"F","e","t","c","h"," ","D","a","t","a">>]
  IN  IF isLoading
        THEN [b EXCEPT !.summary.hidden = TRUE,
                       !.chartSection.hidden = TRUE,
                       !.tableSection.hidden = TRUE]
        ELSE b

\* an Error: String(err) is `${name}: ${message}`
ErrorString(err) == err.name \o <<":"," ">> \o err.message

\* a variant of renderError that leaves the three sections as they are
renderError_SectionsKept(e, custom, err) ==
  LET msg == JObj(<< P(<<"e","r","r","o","r">>, JBool(TRUE)),
                     P(<<"m","e","s","s","a","g","e">>, JStr(ErrorString(err))),
                     P(<<"u","r","l">>, JStr(buildUrl(e, custom))) >>)
  IN  [e EXCEPT !.rawJson.textContent = Stringify(msg, 2, 0),
                !.jsonSection.hidden = ~e.toggleRaw.checked]

\* renderError(err)
renderError(e, custom, err) ==
  LET msg == JObj(<< P(<<"e","r","r","o","r">>, JBool(TRUE)),
                     P(<<"m","e","s","s","a","g","e">>, JStr(ErrorString(err))),
                     P(<<"u","r","l">>, JStr(buildUrl(e, custom))) >>)
  IN  [e EXCEPT !.rawJson.textContent = Stringify(msg, 2, 0),
                !.jsonSection.hidden = ~e.toggleRaw.checked,
                !.summary.hidden = TRUE,
                !.chartSection.hidden = TRUE,
                !.tableSection.hidden = TRUE]

\* els.summaryCards.innerHTML = "" : the children after the assignment
ClearSummaryCards(children) == <<>>

\* the .kpi card of one item: the two escaped texts put into its innerHTML
Card(it) ==
  [label |-> escapeHtml(it.label), value |-> escapeHtml(String(it.value))]

\* renderSummary(items)
renderSummary(e, items) ==
  [e EXCEPT !.summaryCards.children =
                ClearSummaryCards(@) \o [i \in 1..Len(items) |-> Card(items[i])],
            !.summary.hidden = (Len(items) = 0)]

TABLE_SAMPLE_ROWS == 40
TABLE_DEPTH_LIMIT == 2

\* a variant of ClearTable that keeps what the table held
ClearTable_Kept(children) == children

\* els.dataTable.innerHTML = "" : the children after the assignment
ClearTable(children) == <<>>

\* row || {}
RowOrEmpty(row) == IF Truthy(row) THEN row ELSE JObj(<<>>)

\* the keys added to colsSet over the sampled rows, in the order of the
\* add() calls
AddedKeys(rows) == ConcatAll([n \in 1..Len(rows) |-> ObjectKeys(RowOrEmpty(rows[n].v))])

\* [...colsSet]: a Set keeps each key where it was first added
SampleColumns(rows) ==
  LET added == AddedKeys(rows)
      first == SelectSeq(Indices(Len(added)),
                         LAMBDA i : \A j \in 1..(i - 1) : added[j] # added[i])
  IN  [n \in 1..Len(first) |-> added[first[n]]]

\* the rows the <tbody> is built from: for (const row of data)
RenderedRows(d) == d.c

\* the <td> texts of one row of an array
RowCells(row, cols) == [j \in 1..Len(cols) |-> formatVal(GetProp(row, cols[j]))]

Thead(cols) == [tag |-> "thead", rows |-> <<cols>>]
Tbody(rows) == [tag |-> "tbody", rows |-> rows]

\* renderTable(data)
renderTable(e, d) ==
  LET cleared == [e EXCEPT !.dataTable.children = ClearTable(@)]
  IN  IF d.t = "arr" THEN
        LET cols == SampleColumns(Slice(d.c, 0, TABLE_SAMPLE_ROWS))
            body == [i \in 1..Len(RenderedRows(d)) |-> RowCells(RenderedRows(d)[i].v, cols)]
        IN  [cleared EXCEPT
               !.dataTable.children = @ \o <<Thead(cols), Tbody(body)>>,
               !.tableNote.textContent =
                  <<"S","h","o","w","i","n","g"," ">> \o toLocaleString(Len(d.c)) \o <<" ","r","o","w","s",","," ">>
                  \o Digits(Len(cols)) \o <<" ","c","o","l","u","m","n","s",".">>,
               !.tableSection.hidden = FALSE]
      ELSE IF Truthy(d) /\ TypeofObject(d) THEN
        LET rec == flattenObject(d, TABLE_DEPTH_LIMIT, <<>>, <<>>)
            body == [i \in 1..Len(rec) |-> <<rec[i].k, formatVal(rec[i].v)>>]
        IN  [cleared EXCEPT
               !.dataTable.children = @ \o <<Thead(<<<<"k","e","y">>, <<"v","a","l","u","e">>>>), Tbody(body)>>,
               !.tableNote.textContent =
                  Digits(Len(rec)) \o <<" ","f","i","e","l","d","s","."," ","N","e","s","t","e","d"," ","c","o","l","l","e","c","t","i","o","n","s"," ","a","r","e"," ","f","l","a","t","t","e","n","e","d",".">>,
               !.tableSection.hidden = FALSE]
      ELSE [cleared EXCEPT !.tableSection.hidden = TRUE]

-----------------------------------------------------------------------------
(* renderChart and renderAll.  The canvas is its size and the drawing       *)
(* calls made since it was last reset (assigning width or height resets it).*)

leftPad == 180
rightPad == 16
topPad == 16
rowH == 22
gap == 8
bottomPad == 12
containerMargin == 20
LABEL_MAX == 34
LABEL_KEEP == 31
CANVAS_DEFAULT_WIDTH == 300

FillRect(x, y, w, h, style) ==
  [op |-> "fillRect", x |-> x, y |-> y, w |-> w, h |-> h, style |-> style, text |-> <<>>]
FillText(text, x, y, style) ==
  [op |-> "fillText", x |-> x, y |-> y, w |-> 0, h |-> 0, style |-> style, text |-> text]

\* canvas.width = v: the attribute is an unsigned long, and a value that
\* does not fit one falls back to the default width
CanvasWidth(v) == IF v < 0 THEN CANVAS_DEFAULT_WIDTH ELSE v

\* Math.max(...pairs.map(p => Math.abs(p.value))), pairs not empty
MaxAbs(ps) ==
  LET abs == {Abs(ps[i].value) : i \in 1..Len(ps)}
  IN  CHOOSE m \in abs : \A x \in abs : m >= x

\* Math.max(...) || 1
maxVal(ps) == IF MaxAbs(ps) # 0 THEN MaxAbs(ps) ELSE 1

\* Math.round(num / den) for den > 0: halves round up
Round(num, den) == (2 * num + den) \div (2 * den)

\* a variant of barW without the floor of 2
barW_NoFloor(p, ps, width) ==
  LET barMaxW == width - leftPad - rightPad
  IN  Round(Abs(p.value) * barMaxW, maxVal(ps))

\* barW of a pair on a canvas of the given width
barW(p, ps, width) ==
  LET barMaxW == width - leftPad - rightPad
  IN  Max(2, Round(Abs(p.value) * barMaxW, maxVal(ps)))

\* y of row i (from 0)
RowY(i) == topPad + i * (rowH + gap)

\* the label drawn for a pair
ChartLabel(p) ==
  IF Len(p.label) > LABEL_MAX THEN Slice(p.label, 0, LABEL_KEEP) \o <<ELLIPSIS>> ELSE p.label

\* the three drawing calls of pairs.forEach for the pair at index i (from 0)
RowOps(ps, i, width) ==
  LET p == ps[i + 1]
      y == RowY(i)
      w == barW(p, ps, width)
  IN  << FillText(ChartLabel(p), 8, y + 14, "#93a1b5"),
         FillRect(leftPad, y, w, rowH, IF p.value >= 0 THEN "#5b9cff" ELSE "#ff8b5b"),
         FillText(formatNumber(p.value), leftPad + w + 6, y + 14, "#e6edf6") >>

\* pairs.forEach((p, i) => ...)
AllRowOps(ps, width) == ConcatAll([n \in 1..Len(ps) |-> RowOps(ps, n - 1, width)])

\* a variant of renderChart without the early return for no pairs
renderChart_NoEmptyGuard(e, ps, parent) ==
  LET width == CanvasWidth(parent - containerMargin)
      totalH == topPad + (rowH + gap) * Len(ps) + bottomPad
  IN  [e EXCEPT
         !.chartSection.hidden = FALSE,
         !.chartNote.textContent =
            <<"T","o","p"," ">> \o Digits(Len(ps)) \o <<" ","n","u","m","e","r","i","c"," ","f","i","e","l","d","s"," ","b","y"," ","m","a","g","n","i","t","u","d","e"," ","(","a","u","t","o","-","d","e","t","e","c","t","e","d",")",".">>,
         !.barChart = [width |-> width, height |-> totalH,
                       ops |-> <<FillRect(0, 0, width, totalH, "#0b152a")>>
                               \o (IF Len(ps) = 0 THEN <<>> ELSE AllRowOps(ps, width))]]

\* renderChart(pairs), with parent the canvas parent's clientWidth
renderChart(e, ps, parent) ==
  IF Len(ps) = 0 THEN [e EXCEPT !.chartSection.hidden = TRUE]
  ELSE
    LET width == CanvasWidth(parent - containerMargin)
        totalH == topPad + (rowH + gap) * Len(ps) + bottomPad
    IN  [e EXCEPT
           !.chartSection.hidden = FALSE,
           !.chartNote.textContent =
              <<"T","o","p"," ">> \o Digits(Len(ps)) \o <<" ","n","u","m","e","r","i","c"," ","f","i","e","l","d","s"," ","b","y"," ","m","a","g","n","i","t","u","d","e"," ","(","a","u","t","o","-","d","e","t","e","c","t","e","d",")",".">>,
           !.barChart = [width |-> width, height |-> totalH,
                         ops |-> <<FillRect(0, 0, width, totalH, "#0b152a")>>
                                 \o AllRowOps(ps, width)]]

\* renderAll(data)
renderAll(e, d, parent) ==
  LET raw == [e EXCEPT !.rawJson.textContent = Stringify(d, 2, 0),
                       !.jsonSection.hidden = ~e.toggleRaw.checked]
      withSummary == renderSummary(raw, computeSummary(d))
      withTable == renderTable(withSummary, d)
  IN  renderChart(withTable, findNumericPairs(d), parent)

-----------------------------------------------------------------------------
(* The bounded family of JSON values the functions are applied to.          *)

MaxWrap == 4          \* nesting levels put around a base value
MaxDepthLimit == 4    \* largest depthLimit passed to flattenObject
ExtraElems == 1       \* elements of a wide array past the fan-out of 8
ExtraRows == 2        \* rows of a long array past the 40 sampled rows
ExtraChars == 2       \* characters of a long string past the 48 kept

Ka == <<"a">>
Kb == <<"b">>
Kc == <<"c">>
Kdotted == <<"a",".","b">>
Ksuburb == <<"s","u","b","u","r","b">>
Kname == <<"n","a","m","e">>
Karea == <<"a","r","e","a">>

LongText == [i \in 1..(CONTEXT_CHARS + ExtraChars) |-> <<"x", "y", "z">>[(i % 3) + 1]]

WideLen == ARRAY_FANOUT + ExtraElems
ManyRows == TABLE_SAMPLE_ROWS + ExtraRows

WideNums == JArr([i \in 1..WideLen |-> JNum(i)])
WideObjs == JArr([i \in 1..WideLen |-> JObj(<<P(Ka, JNum(i)), P(Kb, JNum(0))>>)])
WideZeros == JArr([i \in 1..WideLen |-> JNum(0)])

ZeroObject == JObj(<<P(Ka, JNum(0)), P(Kb, JStr(<<"0">>)), P(Kc, JStr(<<>>))>>)
NestedZeros == JObj(<<P(Ka, ZeroObject), P(Kb, JArr(<<>>))>>)
Testville == JObj(<<P(Ksuburb, JStr(<<"T","e","s","t","v","i","l","l","e">>)), P(<<"p","o","p","u","l","a","t","i","o","n">>, JNum(1000))>>)
SpecRows == JArr(<< JObj(<<P(Ka, JNum(1)), P(Kb, JNum(2))>>),
                    JObj(<<P(Ka, JNum(3)), P(Kc, JNum(4))>>) >>)

Mixed == JObj(<<P(Ka, JNum(3)), P(Kb, JArr(<<JNum(1)>>)),
               P(Kc, JObj(<<P(Ka, JStr(<<"7">>))>>))>>)

\* values wrapped into chains of objects and arrays
ChainBases ==
  { JNull, JBool(FALSE), JNum(0), JNum(5), JStr(<<"7">>), JStr(<<"h","i">>),
    JArr(<<>>), JObj(<<>>), JArr(<<JNum(0), JStr(<<"7">>)>>),
    ZeroObject, Mixed, WideNums, WideObjs }

Wrappers == {"a", "a.b", "[]"}

Wrap(v, w) ==
  CASE w = "a" -> JObj(<<P(Ka, v)>>)
    [] w = "a.b" -> JObj(<<P(Kdotted, v)>>)
    [] OTHER -> JArr(<<v>>)

RECURSIVE WrapAll(_,_)
WrapAll(v, ws) == IF ws = <<>> THEN v ELSE WrapAll(Wrap(v, ws[Len(ws)]), SubSeq(ws, 1, Len(ws) - 1))

Chains == {WrapAll(v, ws) : v \in ChainBases, ws \in UNION {[1..n -> Wrappers] : n \in 0..MaxWrap}}

\* values taken as they are
PlainInputs ==
  { JBool(TRUE), JNum(-3), JStr(<<>>), JStr(<<"0">>), JStr(<<"-","9">>), JStr(LongText),
    Testville, SpecRows, WideZeros, NestedZeros,
    JObj(<<P(Ksuburb, JNum(0)), P(Kname, JStr(<<"K","e","w">>))>>),
    JObj(<<P(Ksuburb, JStr(<<>>)), P(Karea, JNum(5))>>),
    JObj(<<P(Karea, JNum(3)), P(Kname, JStr(<<"K","e","w"," ","E","a","s","t">>)), P(Ksuburb, JStr(<<"K","e","w">>))>>),
    JObj(<<P(Kname, JBool(FALSE))>>),
    JObj(<<P(Karea, JBool(TRUE)), P(Ka, JNull)>>),
    JObj(<<P(Kname, JStr(LongText)), P(Karea, JStr(<<"e","a","s","t">>))>>),
    JObj(<<P(Ksuburb, JObj(<<P(Kname, JStr(<<"K","e","w">>))>>))>>),
    JObj(<<P(Ka, WideNums), P(Kb, WideNums), P(Kc, JNum(-20))>>),
    JObj(<<P(Ka, JObj(<<P(Kb, JArr(<<JNum(1)>>))>>)), P(Kdotted, JNum(7))>>),
    JObj(<<P(Ka, JNum(-5)), P(Kb, JNum(5)), P(Kc, JStr(<<"5">>))>>),
    JArr(<<JObj(<<P(<<"t","o","S","t","r","i","n","g">>, JNum(1))>>), JObj(<<P(Ka, JNum(2))>>)>>),
    JArr(<<JNull, JNum(5), JStr(<<"h","i">>), JObj(<<P(Ka, JNull), P(Kb, JStr(<<>>))>>),
           JArr(<<JNum(1), JNum(2)>>)>>),
    JArr([i \in 1..ManyRows |->
            IF i = 2 THEN JObj(<<P(Kb, JNum(i))>>)
            ELSE IF i > TABLE_SAMPLE_ROWS THEN JObj(<<P(Ka, JNum(i)), P(Kc, JNum(i))>>)
            ELSE JObj(<<P(Ka, JNum(i))>>)]) }

Inputs == Chains \cup PlainInputs

-----------------------------------------------------------------------------
(* The page as a state machine.                                             *)

MaxFetches == 2       \* onFetch invocations in one behaviour
MaxEdits == 2         \* user edits of the form inputs in one behaviour

SuburbValues == {<<"B","e","l","m","o","n","t"," ","N","o","r","t","h">>, <<" ","K","e","w">>}
EndpointValues == {<<"a","m","e","n","i","t","y">>, CUSTOM_SLUG}
CustomSlugValues == {<<>>, <<"m","y"," ","s","l","u","g">>}
PageWidth == 620
HttpErrorStatuses == {404}

\* what the proxy answers with a 2xx status and a JSON body
Responses ==
  { Testville, SpecRows, ZeroObject, JArr(<<JNum(0), JNum(0)>>), JNum(7) }

\* the errors the try block of onFetch can catch
NetworkError == [name |-> <<"T","y","p","e","E","r","r","o","r">>, message |-> <<"F","a","i","l","e","d"," ","t","o"," ","f","e","t","c","h">>]
HttpError(status) == [name |-> <<"E","r","r","o","r">>, message |-> <<"H","T","T","P"," ">> \o Digits(status)]
JsonError == [name |-> <<"S","y","n","t","a","x","E","r","r","o","r">>, message |-> <<"U","n","e","x","p","e","c","t","e","d"," ","t","o","k","e","n"," ","<"," ","i","n"," ","J","S","O","N"," ","a","t"," ","p","o","s","i","t","i","o","n"," ","0">>]

\* the page as index.html gives it to the script: which sections start
\* hidden and whether the raw-JSON box starts checked is the markup's choice
InitialEls(sumHidden, chartHidden, tableHidden, rawChecked, suburb) ==
  [ suburb |-> [value |-> suburb],
    endpoint |-> [value |-> <<"a","m","e","n","i","t","y">>],
    fetchBtn |-> [disabled |-> FALSE, textContent |-> <<"F","e","t","c","h"," ","D","a","t","a">>],
    toggleRaw |-> [checked |-> rawChecked],
    reqUrl |-> [textContent |-> <<>>],
    summary |-> [hidden |-> sumHidden],
    summaryCards |-> [children |-> <<>>],
    chartSection |-> [hidden |-> chartHidden],
    chartNote |-> [textContent |-> <<>>],
    barChart |-> [width |-> 0, height |-> 0, ops |-> <<>>],
    tableSection |-> [hidden |-> tableHidden],
    tableNote |-> [textContent |-> <<>>],
    dataTable |-> [children |-> <<>>],
    jsonSection |-> [hidden |-> ~rawChecked],
    rawJson |-> [textContent |-> <<>>] ]

NoOutcome == [kind |-> "none", data |-> JNull, err |-> [name |-> <<>>, message |-> <<>>],
              url |-> <<>>]
Outcome(kind, d, err, url) == [kind |-> kind, data |-> d, err |-> err, url |-> url]
NoError == [name |-> <<>>, message |-> <<>>]

\* the state once the script has run to its end (line 108 has set the
\* preview): the suburb field holds the README's example, the raw-JSON box
\* is unchecked, the three sections are all hidden or all shown
PageInit ==
  /\ \E hid \in BOOLEAN :
       els = updateRequestUrlPreview(
               InitialEls(hid, hid, hid, FALSE, <<"B","e","l","m","o","n","t"," ","N","o","r","t","h">>), NoInput)
  /\ customSlugInput = NoInput
  /\ loaded = FALSE
  /\ fetches = <<>>
  /\ clientWidth = PageWidth
  /\ lastDone = NoOutcome
  /\ nStarted = 0
  /\ nDone = 0
  /\ nEdits = 0

PipelineIdle ==
  /\ data = JNull
  /\ depthLimit = DEFAULT_DEPTH_LIMIT
  /\ called = "none"
  /\ flat = <<>>
  /\ pairs = <<>>
  /\ summary = <<>>

Init == PageInit /\ PipelineIdle

Remove(seq, i) == SubSeq(seq, 1, i - 1) \o SubSeq(seq, i + 1, Len(seq))

\* onFetch() up to its first await: the URL is built, the loading state is
\* shown and the request is sent
onFetchStart ==
  /\ nStarted < MaxFetches
  /\ fetches' = Append(fetches, [url |-> buildUrl(els, customSlugInput), pc |-> "fetch"])
  /\ els' = showLoadingState(els, TRUE)
  /\ nStarted' = nStarted + 1
  /\ UNCHANGED <<customSlugInput, clientWidth, lastDone, nDone, nEdits>>
  /\ UNCHANGED pipelineVars

\* the catch and finally blocks of onFetch for the invocation at position i
onFetchFails(i, err) ==
  /\ els' = showLoadingState(renderError(els, customSlugInput, err), FALSE)
  /\ lastDone' = Outcome("fail", JNull, err, fetches[i].url)
  /\ fetches' = Remove(fetches, i)
  /\ nDone' = nDone + 1
  /\ UNCHANGED <<customSlugInput, clientWidth, nStarted, loaded, nEdits>>
  /\ UNCHANGED pipelineVars

\* window "load" listener
Load ==
  /\ ~loaded
  /\ loaded' = TRUE
  /\ onFetchStart

\* click on the Fetch button (a disabled button gets no click)
ClickFetch ==
  /\ ~els.fetchBtn.disabled
  /\ onFetchStart
  /\ UNCHANGED loaded

\* fetch() rejects: the request did not reach the proxy
FetchRejects ==
  \E i \in 1..Len(fetches) :
    /\ fetches[i].pc = "fetch"
    /\ onFetchFails(i, NetworkError)

\* fetch() resolves with a status outside 2xx: line 125 throws
FetchNotOk ==
  \E i \in 1..Len(fetches), status \in HttpErrorStatuses :
    /\ fetches[i].pc = "fetch"
    /\ onFetchFails(i, HttpError(status))

\* fetch() resolves with res.ok: onFetch goes on to await res.json()
FetchOk ==
  \E i \in 1..Len(fetches) :
    /\ fetches[i].pc = "fetch"
    /\ fetches' = [fetches EXCEPT ![i].pc = "json"]
    /\ UNCHANGED <<els, customSlugInput, loaded, clientWidth, lastDone, nStarted, nDone, nEdits>>
    /\ UNCHANGED pipelineVars

\* res.json() rejects: the body is not JSON
JsonRejects ==
  \E i \in 1..Len(fetches) :
    /\ fetches[i].pc = "json"
    /\ onFetchFails(i, JsonError)

\* res.json() resolves: renderAll(data), then the finally block
JsonResolves ==
  \E i \in 1..Len(fetches), d \in Responses :
    /\ fetches[i].pc = "json"
    /\ els' = showLoadingState(renderAll(els, d, clientWidth), FALSE)
    /\ lastDone' = Outcome("ok", d, NoError, fetches[i].url)
    /\ fetches' = Remove(fetches, i)
    /\ nDone' = nDone + 1
    /\ UNCHANGED <<customSlugInput, clientWidth, nStarted, loaded, nEdits>>
    /\ UNCHANGED pipelineVars

\* "input" on the suburb field
InputSuburb ==
  \E s \in SuburbValues :
    /\ s # els.suburb.value
    /\ els' = updateRequestUrlPreview([els EXCEPT !.suburb.value = s], customSlugInput)
    /\ UNCHANGED <<customSlugInput, loaded, fetches, clientWidth, lastDone, nStarted, nDone>>
    /\ nEdits < MaxEdits
    /\ nEdits' = nEdits + 1
    /\ UNCHANGED pipelineVars

\* "change" on the endpoint select: the listener of initEndpoints, then the
\* one of line 112
ChangeEndpoint ==
  \E slug \in EndpointValues :
    /\ slug # els.endpoint.value
    /\ customSlugInput' =
         IF slug = CUSTOM_SLUG
           THEN [exists |-> TRUE,
                 value |-> IF customSlugInput.exists THEN customSlugInput.value ELSE <<>>,
                 display |-> "block"]
           ELSE IF customSlugInput.exists
                  THEN [customSlugInput EXCEPT !.display = "none"]
                  ELSE customSlugInput
    /\ els' = updateRequestUrlPreview([els EXCEPT !.endpoint.value = slug], customSlugInput')
    /\ UNCHANGED <<loaded, fetches, clientWidth, lastDone, nStarted, nDone>>
    /\ nEdits < MaxEdits
    /\ nEdits' = nEdits + 1
    /\ UNCHANGED pipelineVars

\* typing into the custom-slug input (it has no listener)
TypeCustomSlug ==
  \E v \in CustomSlugValues :
    /\ customSlugInput.exists
    /\ customSlugInput.display = "block"
    /\ v # customSlugInput.value
    /\ customSlugInput' = [customSlugInput EXCEPT !.value = v]
    /\ UNCHANGED <<els, loaded, fetches, clientWidth, lastDone, nStarted, nDone>>
    /\ nEdits < MaxEdits
    /\ nEdits' = nEdits + 1
    /\ UNCHANGED pipelineVars

\* "change" on the raw-JSON checkbox
ToggleRaw ==
  /\ els' = [els EXCEPT !.toggleRaw.checked = ~@,
                        !.jsonSection.hidden = els.toggleRaw.checked]
  /\ UNCHANGED <<customSlugInput, loaded, fetches, clientWidth, lastDone, nStarted, nDone>>
  /\ nEdits < MaxEdits
  /\ nEdits' = nEdits + 1
  /\ UNCHANGED pipelineVars

Next ==
  \/ Load
  \/ ClickFetch
  \/ FetchRejects
  \/ FetchNotOk
  \/ FetchOk
  \/ JsonRejects
  \/ JsonResolves
  \/ InputSuburb
  \/ ChangeEndpoint
  \/ TypeCustomSlug
  \/ ToggleRaw

Spec == Init /\ [][Next]_vars

\* a pending promise of an invocation settles and its continuation runs:
\* the steps of FetchRejects, FetchNotOk, FetchOk, JsonRejects and
\* JsonResolves, which are the steps of Next that move or end an invocation
\* without starting one
Settles == fetches' # fetches /\ nStarted' = nStarted

\* the page when every request settles: a settled promise's continuation is
\* a microtask, which the event loop runs.  This is weak fairness of
\* Settles, which is enabled exactly when an invocation is in flight.
SpecSettling == Spec /\ ([]<>(fetches = <<>>) \/ []<><<Settles>>_vars)

-----------------------------------------------------------------------------
(* The pipeline functions applied to the inputs, one call per behaviour.    *)

PipelineInit ==
  /\ data \in Inputs
  /\ depthLimit \in 0..MaxDepthLimit
  /\ called = "none"
  /\ flat = <<>>
  /\ pairs = <<>>
  /\ summary = <<>>
  /\ els = updateRequestUrlPreview(
             InitialEls(TRUE, TRUE, TRUE, FALSE, <<"B","e","l","m","o","n","t"," ","N","o","r","t","h">>), NoInput)
  /\ customSlugInput = NoInput
  /\ loaded = FALSE
  /\ fetches = <<>>
  /\ clientWidth = PageWidth
  /\ lastDone = NoOutcome
  /\ nStarted = 0
  /\ nDone = 0
  /\ nEdits = 0

\* flattenObject(data, depthLimit)
CallFlattenObject ==
  /\ called = "none"
  /\ flat' = flattenObject(data, depthLimit, <<>>, <<>>)
  /\ called' = "flattenObject"
  /\ UNCHANGED <<data, depthLimit, pairs, summary>>
  /\ UNCHANGED pageVars

\* findNumericPairs(data); it flattens with the default depthLimit
CallFindNumericPairs ==
  /\ called = "none"
  /\ depthLimit = DEFAULT_DEPTH_LIMIT
  /\ pairs' = findNumericPairs(data)
  /\ called' = "findNumericPairs"
  /\ UNCHANGED <<data, depthLimit, flat, summary>>
  /\ UNCHANGED pageVars

\* computeSummary(data); it flattens with the default depthLimit
CallComputeSummary ==
  /\ called = "none"
  /\ depthLimit = DEFAULT_DEPTH_LIMIT
  /\ summary' = computeSummary(data)
  /\ called' = "computeSummary"
  /\ UNCHANGED <<data, depthLimit, flat, pairs>>
  /\ UNCHANGED pageVars

\* renderTable(data) on the page as loaded
CallRenderTable ==
  /\ called = "none"
  /\ depthLimit = DEFAULT_DEPTH_LIMIT
  /\ els' = renderTable(els, data)
  /\ called' = "renderTable"
  /\ UNCHANGED <<data, depthLimit, flat, pairs, summary>>
  /\ UNCHANGED <<customSlugInput, loaded, fetches, clientWidth, lastDone, nStarted, nDone, nEdits>>

\* the clientWidth of the canvas's parent: too narrow for the canvas to get
\* a width at all, for the margins, for more than the 2-pixel bar; and wider
ChartClientWidths == {10, 20, 200, 216, 217, 218, 236, PageWidth}

\* renderChart(findNumericPairs(data)) on the page as loaded, in a container
\* of some width
CallRenderChart ==
  /\ called = "none"
  /\ depthLimit = DEFAULT_DEPTH_LIMIT
  /\ \E w \in ChartClientWidths :
       /\ clientWidth' = w
       /\ els' = renderChart(els, findNumericPairs(data), w)
  /\ pairs' = findNumericPairs(data)
  /\ called' = "renderChart"
  /\ UNCHANGED <<data, depthLimit, flat, summary>>
  /\ UNCHANGED <<customSlugInput, loaded, fetches, lastDone, nStarted, nDone, nEdits>>

PipelineNext ==
  \/ CallFlattenObject
  \/ CallFindNumericPairs
  \/ CallComputeSummary
  \/ CallRenderTable
  \/ CallRenderChart

SpecPipeline == PipelineInit /\ [][PipelineNext]_vars

-----------------------------------------------------------------------------
(* Properties of flattenObject (checked under SpecPipeline).                *)

StartsWith(s, pre) == Len(s) >= Len(pre) /\ SubSeq(s, 1, Len(pre)) = pre
IsContainer(v) == v.t \in {"arr", "obj"}
IsNullish(v) == v.t \in {"null", "undef"}
FlatKeys(rec) == {rec[i].k : i \in 1..Len(rec)}
HasEntry(rec, key, v) == \E i \in 1..Len(rec) : rec[i].k = key /\ rec[i].v = v
EntryCount(rec, key) == Cardinality({i \in 1..Len(rec) : rec[i].k = key})
Dots(s) == Cardinality({i \in 1..Len(s) : s[i] = "."})

RECURSIVE Reached(_,_,_,_)
\* The values the traversal reaches, each with the key prefix it is reached
\* under and its position (root, field or element): a container under a
\* prefix with fewer than `limit` dots is expanded, its fields and its first
\* eight elements are reached in turn; nothing below any other value is.
Reached(v, limit, prefix, pos) ==
  {[p |-> prefix, v |-> v, pos |-> pos]}
  \cup
  (IF IsContainer(v) /\ Dots(prefix) < limit
     THEN UNION { Reached(v.c[i].v, limit,
                          IF v.t = "arr"
                            THEN prefix \o <<"[">> \o Digits(i - 1) \o <<"]">>
                            ELSE IF prefix = <<>> THEN v.c[i].k
                                 ELSE prefix \o <<".">> \o v.c[i].k,
                          IF v.t = "arr" THEN "element" ELSE "field")
                  : i \in 1..(IF v.t = "arr" THEN Min(Len(v.c), ARRAY_FANOUT) ELSE Len(v.c)) }
     ELSE {})

ReachedNow == Reached(data, depthLimit, <<>>, "root")

Expanded(x) == IsContainer(x.v) /\ Dots(x.p) < depthLimit

\* the key a reached value is stored under, if it is stored at all
Stored(x) ==
  /\ ~(x.pos = "root" /\ IsNullish(x.v))
  /\ ~(Expanded(x) /\ x.v.t = "obj")
StoreKey(x) ==
  IF Expanded(x) THEN (IF x.p = <<>> THEN <<"_","_","l","e","n">> ELSE x.p \o <<".","_","_","l","e","n">>)
  ELSE IF x.p = <<>> THEN <<"v","a","l","u","e">> ELSE x.p

\* no other reached value is stored under the same key
KeyUnshared(x) ==
  \A y \in ReachedNow : (Stored(y) /\ y # x) => StoreKey(y) # StoreKey(x)

SummaryText(v) ==
  IF v.t = "arr" THEN <<"A","r","r","a","y","(">> \o Digits(Len(v.c)) \o <<")">>
  ELSE IF v.t = "obj" THEN <<"O","b","j","e","c","t","(">> \o Digits(Len(v.c)) \o <<" ","k","e","y","s",")">>
  ELSE String(v)

\* C1: every entry of the record flattenObject returns holds a number, a
\* string, a boolean or null, never an array or an object.
C1_NoContainerSurvives ==
  called = "flattenObject" =>
    \A i \in 1..Len(flat) : flat[i].v.t \in {"num", "str", "bool", "null"}

\* an object holding an array that holds a container has been flattened
C1_Witness ==
  /\ called = "flattenObject"
  /\ depthLimit = DEFAULT_DEPTH_LIMIT
  /\ data.t = "obj"
  /\ \E i \in 1..Len(data.c) :
       /\ data.c[i].v.t = "arr"
       /\ \E j \in 1..Len(data.c[i].v.c) : IsContainer(data.c[i].v.c[j].v)
  /\ Len(flat) >= 2

\* C2 as stated: a non-null value reached under a prefix with at least
\* depthLimit dots gets exactly one entry, keyed by that prefix (read as
\* "value" for the root), holding its summary (the string form for a
\* scalar), and no entry for a descendant.
C2_Original ==
  called = "flattenObject" =>
    \A x \in ReachedNow :
      (~IsNullish(x.v) /\ Dots(x.p) >= depthLimit) =>
        IF x.pos = "root"
          THEN flat = <<P(<<"v","a","l","u","e">>, JStr(SummaryText(x.v)))>>
          ELSE /\ EntryCount(flat, x.p) = 1
               /\ HasEntry(flat, x.p, JStr(SummaryText(x.v)))
               /\ \A k \in FlatKeys(flat) :
                    ~StartsWith(k, x.p \o <<".">>) /\ ~StartsWith(k, x.p \o <<"[">>)

\* C2 as amended: under a prefix with at least depthLimit dots an array, an
\* object or the root value is not expanded and gets one entry holding its
\* summary, keyed by the prefix ("value" when the prefix is empty); a scalar
\* field or element there is stored as it is, not as its string form; and
\* the record has no entry but those of the values reached (none for a
\* descendant of a summarized value).  A key that two reached values share
\* holds the later one.
C2_SummarizedAtLimit ==
  called = "flattenObject" =>
    /\ \A x \in ReachedNow :
         (~IsNullish(x.v) /\ Dots(x.p) >= depthLimit /\ KeyUnshared(x)) =>
           /\ EntryCount(flat, StoreKey(x)) = 1
           /\ IF IsContainer(x.v) \/ x.pos = "root"
                THEN HasEntry(flat, StoreKey(x), JStr(SummaryText(x.v)))
                ELSE HasEntry(flat, StoreKey(x), x.v)
    /\ FlatKeys(flat) = {StoreKey(x) : x \in {y \in ReachedNow : Stored(y)}}

\* a non-empty container and a number have been reached at the depth limit
C2_Witness ==
  /\ called = "flattenObject"
  /\ depthLimit >= 1
  /\ \E x \in ReachedNow :
       /\ IsContainer(x.v) /\ Len(x.v.c) > 0 /\ Dots(x.p) >= depthLimit
       /\ HasEntry(flat, x.p, JStr(SummaryText(x.v)))
  /\ \E x \in ReachedNow :
       /\ x.v.t = "num" /\ x.pos # "root" /\ Dots(x.p) >= depthLimit
       /\ HasEntry(flat, x.p, x.v)

\* C3 as stated: with depthLimit = 0 the record has exactly one entry, keyed
\* "value", holding the summary of a container or the scalar itself.
C3_Original ==
  (called = "flattenObject" /\ depthLimit = 0) =>
    /\ Len(flat) = 1
    /\ flat[1].k = <<"v","a","l","u","e">>
    /\ flat[1].v = IF IsContainer(data) THEN JStr(SummaryText(data)) ELSE data

\* C3 as amended: with depthLimit = 0 a non-null value yields exactly one
\* entry, keyed "value", holding a string: the summary of a container, the
\* string form of a scalar (a number or boolean does not keep its type);
\* null yields the empty record.
C3_DepthZero ==
  (called = "flattenObject" /\ depthLimit = 0) =>
    IF IsNullish(data) THEN flat = <<>>
    ELSE /\ Len(flat) = 1
         /\ flat[1].k = <<"v","a","l","u","e">>
         /\ flat[1].v = JStr(SummaryText(data))

\* a number has been flattened with depthLimit = 0
C3_Witness ==
  /\ called = "flattenObject"
  /\ depthLimit = 0
  /\ data.t = "num"
  /\ Len(flat) = 1

RECURSIVE ArraysInObjects(_,_,_)
\* every array of a value that lies inside some object, with its path-key
ArraysInObjects(v, prefix, inObject) ==
  (IF v.t = "arr" /\ inObject THEN {[p |-> prefix, v |-> v]} ELSE {})
  \cup
  (IF IsContainer(v)
     THEN UNION { ArraysInObjects(v.c[i].v,
                                  IF v.t = "arr"
                                    THEN prefix \o <<"[">> \o Digits(i - 1) \o <<"]">>
                                    ELSE IF prefix = <<>> THEN v.c[i].k
                                         ELSE prefix \o <<".">> \o v.c[i].k,
                                  inObject \/ v.t = "obj")
                  : i \in 1..Len(v.c) }
     ELSE {})

ElementKeys(rec, prefix) == {k \in FlatKeys(rec) : StartsWith(k, prefix \o <<"[">>)}

\* C4 as stated (for the default depthLimit): an array longer than 8 inside
\* an object has its <prefix>.__len entry, equal to its length, and at most
\* 8 keys derived from its elements.
C4_Original ==
  (called = "flattenObject" /\ depthLimit = DEFAULT_DEPTH_LIMIT) =>
    \A a \in ArraysInObjects(data, <<>>, FALSE) :
      Len(a.v.c) > ARRAY_FANOUT =>
        /\ HasEntry(flat, a.p \o <<".","_","_","l","e","n">>, JNum(Len(a.v.c)))
        /\ Cardinality(ElementKeys(flat, a.p)) <= ARRAY_FANOUT

\* C4 as amended: an array longer than 8 that is expanded (reached under a
\* prefix with fewer than depthLimit dots) has its __len entry, equal to its
\* length; only its elements 0..7 contribute entries, exactly 8 of them when
\* those elements are scalars (an element that is a container contributes
\* one entry per value reached in it).  An array at or below the depth limit
\* is summarized and has no __len entry.
C4_WideArray ==
  called = "flattenObject" =>
    \A x \in ReachedNow :
      (x.v.t = "arr" /\ Len(x.v.c) > ARRAY_FANOUT) =>
        IF Dots(x.p) < depthLimit
          THEN /\ KeyUnshared(x) => HasEntry(flat, StoreKey(x), JNum(Len(x.v.c)))
               /\ \A i \in ARRAY_FANOUT..(Len(x.v.c) - 1) :
                    \A k \in FlatKeys(flat) :
                      ~StartsWith(k, x.p \o <<"[">> \o Digits(i) \o <<"]">>)
               /\ (\A i \in 1..ARRAY_FANOUT : ~IsContainer(x.v.c[i].v)) =>
                    Cardinality(ElementKeys(flat, x.p)) = ARRAY_FANOUT
          ELSE /\ KeyUnshared(x) => HasEntry(flat, StoreKey(x), JStr(SummaryText(x.v)))
               /\ ElementKeys(flat, x.p) = {}

\* a wide array of objects inside an object has been expanded
C4_Witness ==
  /\ called = "flattenObject"
  /\ \E x \in ReachedNow :
       /\ x.v.t = "arr" /\ Len(x.v.c) > ARRAY_FANOUT
       /\ x.pos = "field" /\ Dots(x.p) < depthLimit
       /\ IsContainer(x.v.c[1].v)
       /\ Cardinality(ElementKeys(flat, x.p)) > ARRAY_FANOUT

\* C5: findNumericPairs returns at most 12 pairs, none with value 0, in
\* non-increasing order of absolute value.
C5_TopPairs ==
  called = "findNumericPairs" =>
    /\ Len(pairs) <= TOP_PAIRS
    /\ \A i \in 1..Len(pairs) : pairs[i].value # 0
    /\ \A i \in 1..Len(pairs), j \in 1..Len(pairs) :
         i < j => Abs(pairs[i].value) >= Abs(pairs[j].value)

\* more than 12 numeric entries, a zero among the values, 12 pairs returned
C5_Witness ==
  /\ called = "findNumericPairs"
  /\ Len(pairs) = TOP_PAIRS
  /\ Len(flattenObject(data, DEFAULT_DEPTH_LIMIT, <<>>, <<>>)) > TOP_PAIRS
  /\ \E i \in 1..Len(pairs) : pairs[i].value < 0
  /\ \E i \in 1..(Len(pairs) - 1) : Abs(pairs[i].value) = Abs(pairs[i + 1].value)

-----------------------------------------------------------------------------
(* Properties of the chart, the table and the summary.                      *)

\* a string that Number() turns into a finite number other than 0
NonZeroNumericString(s) ==
  /\ Trim(s) # <<>>
  /\ StringToNumber(Trim(s)).finite
  /\ StringToNumber(Trim(s)).n # 0

RECURSIVE NumericValuesAllZero(_)
\* every number in the value is 0 and no string in it reads as another number
NumericValuesAllZero(v) ==
  CASE v.t = "num" -> v.n = 0
    [] v.t = "str" -> ~NonZeroNumericString(v.s)
    [] v.t \in {"arr", "obj"} -> \A i \in 1..Len(v.c) : NumericValuesAllZero(v.c[i].v)
    [] OTHER -> TRUE

RECURSIVE NoElementsAnywhere(_)
\* every array in the value is empty
NoElementsAnywhere(v) ==
  CASE v.t = "arr" -> v.c = <<>>
    [] v.t = "obj" -> \A i \in 1..Len(v.c) : NoElementsAnywhere(v.c[i].v)
    [] OTHER -> TRUE

\* a step in which an invocation of onFetch completes
Completes == nDone' = nDone + 1

\* C6 as stated: when a response whose numeric values are all zero has been
\* rendered, findNumericPairs of it is empty, nothing has been drawn on the
\* canvas and the chart section is hidden.
C6_Original ==
  [][(Completes /\ lastDone'.kind = "ok" /\ NumericValuesAllZero(lastDone'.data)) =>
       /\ findNumericPairs(lastDone'.data) = <<>>
       /\ els'.barChart = els.barChart
       /\ els'.chartSection.hidden]_vars

\* C6 as amended: the same for a payload whose numeric values are all zero
\* and that holds no non-empty array (the __len entry of a non-empty array is
\* a non-zero number: it makes a pair and the chart is drawn).
C6_AllZeroNoChart ==
  [][(/\ Completes /\ lastDone'.kind = "ok"
      /\ NumericValuesAllZero(lastDone'.data)
      /\ NoElementsAnywhere(lastDone'.data)) =>
       /\ findNumericPairs(lastDone'.data) = <<>>
       /\ els'.barChart = els.barChart
       /\ els'.chartSection.hidden]_vars

\* an all-zero object was rendered after a chart had been drawn: the canvas
\* still holds the earlier drawing and the section is hidden
C6_Witness ==
  /\ lastDone.kind = "ok"
  /\ lastDone.data = ZeroObject
  /\ Len(els.barChart.ops) > 1
  /\ els.chartSection.hidden
  /\ fetches = <<>>

\* the keys of a row as Object.keys gives them
RowKeys(row) == ObjectKeys(IF row.t \in {"null", "undef"} THEN JObj(<<>>) ELSE row)
SampledRows(d) == SubSeq(d.c, 1, Min(Len(d.c), TABLE_SAMPLE_ROWS))
KeySet(seq) == {seq[i] : i \in 1..Len(seq)}
\* where a key is first seen in the sampled rows: <<row, place in the row>>
FirstSeen(d, key) ==
  LET r == CHOOSE i \in 1..Len(SampledRows(d)) :
             /\ key \in KeySet(RowKeys(d.c[i].v))
             /\ \A j \in 1..(i - 1) : key \notin KeySet(RowKeys(d.c[j].v))
      n == CHOOSE m \in 1..Len(RowKeys(d.c[r].v)) :
             /\ RowKeys(d.c[r].v)[m] = key
             /\ \A j \in 1..(m - 1) : RowKeys(d.c[r].v)[j] # key
  IN  <<r, n>>
Before(a, b) == a[1] < b[1] \/ (a[1] = b[1] /\ a[2] < b[2])
IsFirstSeenUnion(cols, d) ==
  /\ KeySet(cols) = UNION {KeySet(RowKeys(SampledRows(d)[i].v)) : i \in 1..Len(SampledRows(d))}
  /\ \A i \in 1..Len(cols), j \in 1..Len(cols) :
       i < j => Before(FirstSeen(d, cols[i]), FirstSeen(d, cols[j]))

\* C7 as stated: for an array the header is the union of the keys of the
\* first 40 rows in first-seen order, the body has one row per element of
\* the array, each with one cell per column, and the cell of a column whose
\* key the row lacks is the empty string.
C7_Original ==
  (called = "renderTable" /\ data.t = "arr") =>
    LET table == els.dataTable.children
        cols == table[1].rows[1]
        body == table[2].rows
    IN  /\ Len(table) = 2
        /\ IsFirstSeenUnion(cols, data)
        /\ Len(body) = Len(data.c)
        /\ \A i \in 1..Len(body) :
             /\ Len(body[i]) = Len(cols)
             /\ \A j \in 1..Len(cols) :
                  cols[j] \notin KeySet(RowKeys(data.c[i].v)) => body[i][j] = <<>>

\* the text of a value the || chain of computeSummary does not skip
ContextOf(rec, key) ==
  LET hits == {i \in 1..Len(rec) : rec[i].k = key}
      v == rec[CHOOSE i \in hits : TRUE].v
  IN  IF hits = {} THEN [some |-> FALSE, text |-> <<>>]
      ELSE [some |-> TRUE, text |-> String(v)]

NonEmptyValue(rec, key) ==
  \E i \in 1..Len(rec) :
    rec[i].k = key /\ rec[i].v.t \notin {"null", "undef"} /\ rec[i].v # JStr(<<>>)

TruthyValue(rec, key) ==
  \E i \in 1..Len(rec) :
    /\ rec[i].k = key
    /\ rec[i].v.t \notin {"null", "undef"}
    /\ rec[i].v # JStr(<<>>)
    /\ rec[i].v # JBool(FALSE)
    /\ rec[i].v # JNum(0)

ContextKeys == <<Ksuburb, Kname, Karea>>
First48(s) == SubSeq(s, 1, Min(Len(s), CONTEXT_CHARS))
ContextItems(items) == {i \in 1..Len(items) : items[i].label = <<"C","o","n","t","e","x","t">>}
FlatData == flattenObject(data, DEFAULT_DEPTH_LIMIT, <<>>, <<>>)

\* C8 as stated: the first of suburb, name, area whose flattened value is
\* non-empty (not missing, null or "") gives the Context item, the last
\* item, holding its string form cut to 48 characters; with no such key
\* there is no Context item.
C8_Original ==
  called = "computeSummary" =>
    LET won == {n \in 1..3 : NonEmptyValue(FlatData, ContextKeys[n])}
        first == CHOOSE n \in won : \A m \in won : n <= m
    IN  IF won = {} THEN ContextItems(summary) = {}
        ELSE /\ ContextItems(summary) = {Len(summary)}
             /\ summary[Len(summary)].value =
                  JStr(First48(ContextOf(FlatData, ContextKeys[first]).text))

\* C8 as amended: the same with "truthy" for "non-empty": a value that is
\* missing, null, "", false or 0 is passed over.
C8_ContextItem ==
  called = "computeSummary" =>
    LET won == {n \in 1..3 : TruthyValue(FlatData, ContextKeys[n])}
        first == CHOOSE n \in won : \A m \in won : n <= m
    IN  IF won = {} THEN ContextItems(summary) = {}
        ELSE /\ ContextItems(summary) = {Len(summary)}
             /\ summary[Len(summary)].value =
                  JStr(First48(ContextOf(FlatData, ContextKeys[first]).text))

\* a name longer than 48 characters has been cut for the Context item
C8_Witness ==
  /\ called = "computeSummary"
  /\ ~TruthyValue(FlatData, Ksuburb)
  /\ TruthyValue(FlatData, Kname)
  /\ Len(ContextOf(FlatData, Kname).text) > CONTEXT_CHARS
  /\ Len(summary) = 3
  /\ Len(summary[3].value.s) = CONTEXT_CHARS

-----------------------------------------------------------------------------
(* Properties of the page.                                                  *)

SectionsHidden(e) == e.summary.hidden /\ e.chartSection.hidden /\ e.tableSection.hidden

\* C9: a fetch that fails (network error, non-2xx status, body that is not
\* JSON) renders nothing of its own: cards, table and canvas are what they
\* were; the raw-JSON area shows {error: true, message, url} and the
\* summary, chart and table sections are hidden.
C9_FailureShowsError ==
  [][(Completes /\ lastDone'.kind = "fail") =>
       /\ els'.summaryCards = els.summaryCards
       /\ els'.dataTable = els.dataTable
       /\ els'.tableNote = els.tableNote
       /\ els'.barChart = els.barChart
       /\ els'.chartNote = els.chartNote
       /\ els'.rawJson.textContent =
            Stringify(JObj(<< P(<<"e","r","r","o","r">>, JBool(TRUE)),
                              P(<<"m","e","s","s","a","g","e">>, JStr(lastDone'.err.name \o <<":"," ">>
                                                  \o lastDone'.err.message)),
                              P(<<"u","r","l">>, JStr(buildUrl(els, customSlugInput))) >>), 2, 0)
       /\ SectionsHidden(els')]_vars

\* a fetch failed on a page that an earlier response had filled
C9_Witness ==
  /\ lastDone.kind = "fail"
  /\ nDone = 2
  /\ fetches = <<>>
  /\ els.summaryCards.children # <<>>
  /\ els.dataTable.children # <<>>
  /\ SectionsHidden(els)
  /\ Len(els.rawJson.textContent) > 0

\* what renderAll of the last response puts on an empty page
FreshPage ==
  renderAll(InitialEls(TRUE, TRUE, TRUE, FALSE, <<>>), lastDone.data, clientWidth)

\* C10: after any sequence of completed fetches, what is visible of the
\* cards, the table and the chart is what the most recently completed
\* response alone gives: all of it when that response was rendered, nothing
\* when it failed.
C10_LatestOnly ==
  /\ lastDone.kind = "fail" => SectionsHidden(els)
  /\ lastDone.kind = "ok" =>
       /\ ~els.summary.hidden => els.summaryCards = FreshPage.summaryCards
       /\ ~els.tableSection.hidden =>
            /\ els.dataTable = FreshPage.dataTable
            /\ els.tableNote = FreshPage.tableNote
       /\ ~els.chartSection.hidden =>
            /\ els.barChart = FreshPage.barChart
            /\ els.chartNote = FreshPage.chartNote

\* two responses were rendered one after the other, all sections visible
C10_Witness ==
  /\ lastDone.kind = "ok"
  /\ nDone = 2
  /\ fetches = <<>>
  /\ ~els.summary.hidden /\ ~els.tableSection.hidden /\ ~els.chartSection.hidden
  /\ lastDone.data = SpecRows

-----------------------------------------------------------------------------
(* Properties of onFetch and its interleavings.                             *)

InFlight == Len(fetches)

\* C11 as stated: at most one onFetch invocation is in flight, and while one
\* is in flight the Fetch button is disabled and the summary, chart and
\* table sections are hidden.
C11_Original ==
  /\ InFlight <= 1
  /\ InFlight >= 1 => (els.fetchBtn.disabled /\ SectionsHidden(els))

Idle(btn) == ~btn.disabled /\ btn.textContent = <<"F","e","t","c","h"," ","D","a","t","a">>

\* C12: every onFetch invocation whose request settles leaves the loading
\* state: the step that ends it (a render, a non-2xx status, a network
\* error, a body that is not JSON) leaves the Fetch button enabled with the
\* text "Fetch Data", and every invocation started is eventually ended.
C12_LeavesLoading ==
  /\ [][Completes => Idle(els'.fetchBtn)]_vars
  /\ \A k \in 1..MaxFetches : (nStarted >= k) ~> (nDone >= k)

\* two invocations have ended, the later one in an error, and the button is
\* back to "Fetch Data"
C12_Witness ==
  /\ nDone = 2
  /\ fetches = <<>>
  /\ lastDone.kind = "fail"
  /\ lastDone.err = JsonError
  /\ Idle(els.fetchBtn)

\* the error object renderError would show for a failure with the given URL
ErrorObject(err, url) ==
  JObj(<< P(<<"e","r","r","o","r">>, JBool(TRUE)),
          P(<<"m","e","s","s","a","g","e">>, JStr(err.name \o <<":"," ">> \o err.message)),
          P(<<"u","r","l">>, JStr(url)) >>)

\* C13 as stated: after a fetch has failed, the url field of the error
\* object shown in the raw-JSON area is the URL the failed request was sent
\* to, whatever has been typed or selected since the request was sent.
C13_Original ==
  lastDone.kind = "fail" =>
    els.rawJson.textContent = Stringify(ErrorObject(lastDone.err, lastDone.url), 2, 0)

-----------------------------------------------------------------------------
(* Properties of the chart's geometry (checked under SpecPipeline).         *)

\* the rectangle drawn for the pair at position i (from 1): the canvas holds
\* the background, then label, bar and value of each pair
Bar(i) == els.barChart.ops[3 * i]
Canvas == els.barChart
Charted == called = "renderChart" /\ Len(pairs) >= 1
LargestAbs == CHOOSE m \in {Abs(pairs[i].value) : i \in 1..Len(pairs)} :
                \A j \in 1..Len(pairs) : m >= Abs(pairs[j].value)
BarsFit ==
  /\ \A i \in 1..Len(pairs) : Bar(i).x + Bar(i).w <= Canvas.width - rightPad
  /\ \A i \in 1..Len(pairs) :
       Abs(pairs[i].value) = LargestAbs => Bar(i).w = Canvas.width - leftPad - rightPad
BarsInRows ==
  /\ Len(Canvas.ops) = 1 + 3 * Len(pairs)
  /\ \A i \in 1..Len(pairs) :
       /\ Bar(i).op = "fillRect"
       /\ Bar(i).y >= 0
       /\ Bar(i).y + Bar(i).h <= Canvas.height
       /\ Bar(i).h = rowH
       /\ Bar(i).w >= 2

\* C14 as stated: for 1 to 12 pairs and any canvas width, every bar lies
\* inside the canvas (y >= 0, y + rowH <= height, x + barW <= width -
\* rightPad), is at least 2 wide, and the bar of the largest absolute value
\* is as wide as the space between the left and right margins.
C14_Original ==
  Charted => (BarsInRows /\ BarsFit)

\* C14 as amended: the vertical bounds and the 2-pixel minimum hold for any
\* canvas width; the horizontal bound and the full-width bar of the largest
\* value hold for a canvas at least leftPad + rightPad + 2 = 198 wide.  On a
\* narrower canvas every bar is 2 wide and passes the right margin.
C14_BarsInsideCanvas ==
  Charted =>
    /\ BarsInRows
    /\ IF Canvas.width >= leftPad + rightPad + 2 THEN BarsFit
       ELSE \A i \in 1..Len(pairs) :
              /\ Bar(i).w = 2
              /\ Bar(i).x + Bar(i).w > Canvas.width - rightPad

\* 12 pairs were charted on a canvas with room for them: the largest has
\* the full width, a small one has the 2-pixel floor
C14_Witness ==
  /\ Charted
  /\ Len(pairs) = TOP_PAIRS
  /\ Canvas.width = clientWidth - containerMargin
  /\ Canvas.width - leftPad - rightPad > 2
  /\ Bar(1).w = Canvas.width - leftPad - rightPad
  /\ \E i \in 1..Len(pairs) : Bar(i).w = 2 /\ Abs(pairs[i].value) < LargestAbs

=============================================================================
